---- MODULE Spec2Model ----
(***************************************************************************)
(* The job scheduling and execution core of sentinel-webscraper            *)
(* (src/src/core/scheduler-job-manager.ts): CircuitBreaker,                *)
(* ResourceMonitor, PriorityJobQueue and SchedulerJobManager.executeJob /  *)
(* runJobWithRetry.                                                        *)
(*                                                                         *)
(* Granularity.  The program runs on one JavaScript event loop.  One       *)
(* action of the model is one macrotask together with the promise          *)
(* continuations (microtasks) it makes runnable: an executeJob call        *)
(* (ExecuteJob) or the callback of a cron task (CronCallback), the         *)
(* settlement of a job body (BodySettle), the end of a backoff sleep       *)
(* (Wake), the expiry of the queue's timeout timer (Timeout), a resource   *)
(* poll (PollResources), the completion of the registry write              *)
(* (PersistDone) and the management calls createJob, updateJob and         *)
(* deleteJob (CreateJob, UpdateJob, DeleteJob), each with the registry     *)
(* write and the event that end it.                                        *)
(*                                                                         *)
(* Time.  now is Date.now() in milliseconds.  The clock advances in steps  *)
(* of one breaker cooldown; timers that are shorter than that (backoff     *)
(* sleeps, the 2 s resource poll, the queue timeout) may expire at any     *)
(* later step, and the delay each sleep asked for is recorded.             *)
(***************************************************************************)
EXTENDS Integers, Sequences, FiniteSets, TLC

\* ---------------------------------------------------------------- bounds
MaxExec == 2                    \* executeJob calls in one behaviour of Spec
MaxExecBreaker == 4             \* executeJob calls in one behaviour of SpecBreaker
MaxTicks == 2                   \* clock steps in one behaviour
Threshold == 1                  \* config.circuitBreakerThreshold in Spec
ThresholdBreaker == 2           \* config.circuitBreakerThreshold in SpecBreaker
HistoryLimit == 2               \* config.executionHistoryLimit
MaxExecRegistry == 2            \* executeJob calls in one behaviour of SpecRegistry
MaxMgmt == 2                    \* job objects createJob and updateJob add to those of RegistryJobs
MaxExecTimers == 2              \* executeJob calls in one behaviour of SpecTimers
MaxExecAverage == 2             \* executeJob calls in one behaviour of SpecAverage
MaxExecLive == 2                \* executeJob calls in one behaviour of SpecLive
MaxRuns == 2                    \* the loaded job of SpecAverage has runCount 0..MaxRuns
MaxAverage == 3                 \* and averageRunTime 0..MaxAverage
MaxExecLanes == 3               \* executeJob calls in one behaviour of SpecLanes
MaxTotal == 11                  \* config.maxConcurrentJobs is drawn from 0..MaxTotal in SpecLanes

\* ------------------------------------------------------- program constants
MaxConcurrentJobs == 5          \* config.maxConcurrentJobs (default)
CbTimeout == 60000              \* CircuitBreaker timeout (default)
NextRunDelay == 60000           \* getNextRunTime: Date.now() + 60000
MemoryLimit == 85               \* isSystemOverloaded: memory > 85
CpuLimit == 90                  \* isSystemOverloaded: cpu > 90
StartTime == 1                  \* Date.now() when the manager is constructed

VARIABLES
  now,              \* Date.now()
  config,           \* this.config
  memory,           \* round(heapUsed / heapTotal * 100) as process.memoryUsage() gives it
  jobs,             \* this.jobs: job id -> reference of the job object (0: no entry)
  heap,             \* the ScheduledJob objects, by reference
  circuitBreakers,  \* this.circuitBreakers: job id -> reference of the breaker (0: none)
  cb,               \* the CircuitBreaker objects, by reference
  streak,           \* per breaker: the failed calls it saw since its last successful call
  executions,       \* this.executions: the Map's entries in insertion order
  ex,               \* the executeJob calls and their JobExecution objects
  queues,           \* PriorityJobQueue.queues: per priority, the PQueue's waiting list and pending count
  events,           \* per execution, the job:completed and job:failed events emitted for it
  cronTasks,        \* this.cronTasks: job id -> reference of the cron task (0: no entry)
  tasks,            \* the cron.ScheduledTask objects, by reference
  createCall,       \* the last createJob call: its argument and how far it got
  lag               \* the event loop lag in ms the setImmediate callback of getCurrentUsage measures

vars == <<now, config, memory, jobs, heap, circuitBreakers, cb, streak, executions, ex,
          queues, events, cronTasks, tasks, createCall, lag>>

Execs == DOMAIN ex
JobIds == DOMAIN jobs
Priorities == 1..5
MemoryLevels == {MemoryLimit, MemoryLimit + 1}
Lags == {0, 900, 910, 1200}

Max(a, b) == IF a >= b THEN a ELSE b
Min(a, b) == IF a <= b THEN a ELSE b

\* Math.round(a / b) for a >= 0, b > 0
Round(a, b) == (2 * a + b) \div (2 * b)

RECURSIVE Pow(_, _)
\* Math.pow(b, k) for integers k >= 0
Pow(b, k) == IF k = 0 THEN 1 ELSE b * Pow(b, k - 1)

\* ------------------------------------------------------------- the registry
NewMetadata == [lastRun |-> 0, nextRun |-> 0, runCount |-> 0, errorCount |-> 0,
                averageRunTime |-> 0]

\* a ScheduledJob as createJob builds it (lines 308-317)
Job(id, enabled, priority, maxRetries, dependencies, timeout) ==
  [id |-> id, enabled |-> enabled, priority |-> priority, maxRetries |-> maxRetries,
   backoffMultiplier |-> 2, initialDelay |-> 100, dependencies |-> dependencies,
   timeout |-> timeout, cronExpression |-> "* * * * *", metadata |-> NewMetadata]

\* The jobs loadJobs finds in the persisted store when the manager is constructed.
\* Job 1 retries once, depends on job 2 and has ten minutes for a run; job 2 is
\* disabled (it runs by hand only), does not retry and has one second; job 3
\* depends on job 2 and on an id that is not registered.  All are in lane 3,
\* which starts one run at a time.
StoredJobs == << Job(1, TRUE, 3, 2, <<2>>, 600000), Job(2, FALSE, 3, 1, <<>>, 1000),
                 Job(3, TRUE, 3, 0, <<2, 4>>, 1000) >>

\* SpecBreaker: one job, run by hand, that retries once and has ten minutes.
BreakerJobs == << Job(1, FALSE, 3, 1, <<>>, 600000) >>

\* SpecRegistry: job 1 depends on job 2; both are enabled, do not retry and have
\* ten minutes for a run.
RegistryJobs == << Job(1, TRUE, 3, 0, <<2>>, 600000), Job(2, TRUE, 3, 0, <<>>, 600000) >>

\* the definitions createJob is called with: job 2 again, a job with an id that
\* is not registered, a definition the schema rejects (priority 6) and one
\* whose cron expression does not validate
JobData == << Job(2, TRUE, 3, 0, <<>>, 600000), Job(3, FALSE, 1, 0, <<>>, 600000),
              Job(3, TRUE, 6, 0, <<>>, 600000),
              [Job(3, TRUE, 3, 0, <<>>, 600000) EXCEPT !.cronExpression = "every minute"] >>

\* the partial jobs updateJob is called with in SpecRegistry
Updates == << [enabled |-> FALSE], [priority |-> 1], [priority |-> 6],
              [dependencies |-> <<>>] >>

\* SpecLive: one job, run by hand, that retries once and has one second
LiveJobs == << Job(1, FALSE, 3, 1, <<>>, 1000) >>

\* SpecLanes: one job in every lane, run by hand, without retries
LaneJobs == << Job(1, FALSE, 1, 0, <<>>, 600000), Job(2, FALSE, 2, 0, <<>>, 600000),
               Job(3, FALSE, 3, 0, <<>>, 600000), Job(4, FALSE, 4, 0, <<>>, 600000),
               Job(5, FALSE, 5, 0, <<>>, 600000) >>

\* ---------------------------------------------------------- CircuitBreaker
NewBreaker(threshold) ==
  [failureCount |-> 0, lastFailureTime |-> 0, state |-> "closed",
   threshold |-> threshold, timeout |-> CbTimeout]

\* CbRejects with the cooldown taken as over once exactly timeout has passed
CbRejects_AtCooldown(b, t) == b.state = "open" /\ ~(t - b.lastFailureTime >= b.timeout)

\* execute, lines 107-113: TRUE when the call is rejected with "Circuit breaker is OPEN"
CbRejects(b, t) == b.state = "open" /\ ~(t - b.lastFailureTime > b.timeout)

\* execute, lines 107-113: the breaker after the check of a call that is let through
CbAfterCheck(b, t) ==
  IF b.state = "open" /\ t - b.lastFailureTime > b.timeout
  THEN [b EXCEPT !.state = "half-open"]
  ELSE b

\* OnSuccess without the reset of the count
OnSuccess_KeepCount(b) == [b EXCEPT !.state = "closed"]

\* onSuccess, lines 125-128
OnSuccess(b) == [b EXCEPT !.failureCount = 0, !.state = "closed"]

\* OnFailure opening only above the threshold
OnFailure_Above(b, t) ==
  LET n == b.failureCount + 1 IN
  [b EXCEPT !.failureCount = n,
            !.lastFailureTime = t,
            !.state = IF n > b.threshold THEN "open" ELSE @]

\* onFailure, lines 130-137
OnFailure(b, t) ==
  LET n == b.failureCount + 1 IN
  [b EXCEPT !.failureCount = n,
            !.lastFailureTime = t,
            !.state = IF n >= b.threshold THEN "open" ELSE @]

\* --------------------------------------------------------- ResourceMonitor
\* the cpu approximation of line 156, Math.min(100, lag / 10), for the lags of
\* the model (multiples of 10 ms): it goes to the readings
CpuApproximation == Min(100, lag \div 10)

\* getCurrentUsage returns cpu: 0 ("until next tick"); the lag it measures only
\* goes to the readings.
CurrentUsage == [memory |-> memory, cpu |-> 0]

IsSystemOverloaded == CurrentUsage.memory > MemoryLimit \/ CurrentUsage.cpu > CpuLimit

\* -------------------------------------------------------- PriorityJobQueue
\* Concurrency without the floor of 1
Concurrency_NoFloor(priority) == config.maxConcurrentJobs \div priority

\* the concurrency of the PQueue of a lane, line 201
Concurrency(priority) == Max(1, config.maxConcurrentJobs \div priority)

\* runJobWithRetry entered by the queue: the loop's first iteration up to the
\* call of the job body (lines 504-514)
StartAttempt(x, e, attempt) ==
  [x EXCEPT ![e].retryAttempt = attempt,
            ![e].status = "running",
            ![e].attempt = attempt,
            ![e].lpc = "body",
            ![e].invocations = @ + 1]

\* PQueue._tryToStartAnother on lane q: the head of the waiting list starts when
\* the concurrency allows it.  [q, x]
TryToStartAnother(q, x, p) ==
  IF q[p].waiting # <<>> /\ q[p].pending < Concurrency(p)
  THEN LET h == Head(q[p].waiting) IN
       [q |-> [q EXCEPT ![p] = [waiting |-> Tail(@.waiting), pending |-> @.pending + 1]],
        x |-> StartAttempt([x EXCEPT ![h].xpc = "admitted", ![h].runStart = now], h, 0)]
  ELSE [q |-> q, x |-> x]

\* PQueue.add(job, {timeout}) (line 225): enqueue, then _tryToStartAnother
QueueAdd(q, x, p, e) ==
  TryToStartAnother([q EXCEPT ![p].waiting = Append(@, e)],
                    [x EXCEPT ![e].xpc = "queued"], p)

\* PQueue._next when a run settles: the slot is given back, then _tryToStartAnother
QueueNext(q, x, p) ==
  TryToStartAnother([q EXCEPT ![p].pending = @ - 1], x, p)

\* --------------------------------------------------------- the ledger (Map)
RECURSIVE IndexOf(_, _, _)
IndexOf(l, id, i) ==
  IF i > Len(l) THEN 0 ELSE IF l[i].id = id THEN i ELSE IndexOf(l, id, i + 1)

\* Map.set: an existing key keeps its place and gets the new value
MapSet(l, id, e) ==
  LET i == IndexOf(l, id, 1) IN
  IF i = 0 THEN Append(l, [id |-> id, ex |-> e]) ELSE [l EXCEPT ![i].ex = e]

RECURSIVE InsertSorted(_, _, _)
\* entry a put into s (sorted by startTime, newest first) after every entry that
\* is not older: Array.prototype.sort is stable
InsertSorted(s, a, x) ==
  IF s = <<>> THEN <<a>>
  ELSE IF x[Head(s).ex].startTime >= x[a.ex].startTime
       THEN <<Head(s)>> \o InsertSorted(Tail(s), a, x)
       ELSE <<a>> \o s

RECURSIVE SortByStartDesc(_, _)
SortByStartDesc(l, x) ==
  IF l = <<>> THEN <<>>
  ELSE InsertSorted(SortByStartDesc(SubSeq(l, 1, Len(l) - 1), x), l[Len(l)], x)

\* CleanupExecutionHistory without the sort: the first entries of the Map are kept
CleanupExecutionHistory_Unsorted(l, x) ==
  IF Len(l) <= config.executionHistoryLimit THEN l
  ELSE SubSeq(l, 1, config.executionHistoryLimit)

\* cleanupExecutionHistory, lines 618-629
CleanupExecutionHistory(l, x) ==
  IF Len(l) <= config.executionHistoryLimit THEN l
  ELSE SubSeq(SortByStartDesc(l, x), 1, config.executionHistoryLimit)

\* ------------------------------------------------------ SchedulerJobManager
RECURSIVE CheckFrom_NoLastRun(_, _)
\* CheckFrom without the test of lastRun
CheckFrom_NoLastRun(dependencies, i) ==
  IF i > Len(dependencies) THEN TRUE
  ELSE LET ref == jobs[dependencies[i]] IN
       IF ref = 0 THEN FALSE
       ELSE IF heap[ref].metadata.errorCount > 0
            THEN FALSE
            ELSE CheckFrom_NoLastRun(dependencies, i + 1)

\* checkDependencies, the loop of lines 588-600 from the i-th dependency on
RECURSIVE CheckFrom(_, _)
CheckFrom(dependencies, i) ==
  IF i > Len(dependencies) THEN TRUE
  ELSE LET ref == jobs[dependencies[i]] IN
       IF ref = 0 THEN FALSE
       ELSE IF heap[ref].metadata.lastRun = 0 \/ heap[ref].metadata.errorCount > 0
            THEN FALSE
            ELSE CheckFrom(dependencies, i + 1)

\* checkDependencies, lines 585-603
CheckDependencies(dependencies) ==
  IF Len(dependencies) = 0 THEN TRUE ELSE CheckFrom(dependencies, 1)

\* GateRefuses without the exemption of manual runs
GateRefuses_Always(manual, dependencies) == ~CheckDependencies(dependencies)

\* executeJob line 429: the firing is refused for its dependencies
GateRefuses(manual, dependencies) == ~manual /\ ~CheckDependencies(dependencies)

\* CalculateAverageRunTime with the quotient rounded down
CalculateAverageRunTime_Floor(md, newDuration) ==
  (md.averageRunTime * (md.runCount - 1) + newDuration) \div md.runCount

\* calculateAverageRunTime, lines 611-616 (job.metadata.runCount already incremented)
CalculateAverageRunTime(md, newDuration) ==
  Round(md.averageRunTime * (md.runCount - 1) + newDuration, md.runCount)

\* RetryDelay with the exponent counted from 1
RetryDelay_FromOne(job, attempt) == job.initialDelay * Pow(job.backoffMultiplier, attempt + 1)

\* the sleep after the failed attempt, line 529
RetryDelay(job, attempt) == job.initialDelay * Pow(job.backoffMultiplier, attempt)

\* the error of the job body's attempt k, as the message the loop keeps
BodyError(attempt) == <<"E0", "E1", "E2", "E3", "E4">>[attempt + 1]

IdleExec ==
  [xpc |-> "idle", lpc |-> "none", jobId |-> 0, job |-> 0, breaker |-> 0, manual |-> FALSE,
   thrown |-> "", id |-> <<0, 0>>, startTime |-> 0, runStart |-> 0, endTime |-> 0, status |-> "none",
   retryAttempt |-> 0, error |-> "", result |-> "", duration |-> 0,
   attempt |-> 0, invocations |-> 0, sleeps |-> <<>>, lastError |-> "", loopError |-> "",
   admittedIn |-> "none", timer |-> 0]

Used == {e \in DOMAIN ex : ex[e].xpc # "idle"}

\* createJob was not called yet
NoCall == [jobData |-> [id |-> 0], thrown |-> "", persisted |-> FALSE, emitted |-> "none"]

\* the constructor, lines 276-292, with the configuration it is given
InitWith(cfg, stored, ids, slots) ==
  /\ now = StartTime
  /\ config = cfg
  /\ memory = MemoryLimit
  /\ heap = stored
  /\ jobs = [j \in ids |-> IF \E r \in DOMAIN stored : stored[r].id = j
                           THEN CHOOSE r \in DOMAIN stored : stored[r].id = j
                           ELSE 0]
  /\ circuitBreakers = [j \in ids |-> 0]
  /\ cb = <<>>
  /\ streak = <<>>
  /\ executions = <<>>
  /\ ex = [e \in 1..slots |-> IdleExec]
  /\ queues = [p \in Priorities |-> [waiting |-> <<>>, pending |-> 0]]
  /\ events = [e \in 1..slots |-> [completed |-> 0, failed |-> 0]]
  /\ cronTasks = [j \in ids |-> 0]
  /\ tasks = <<>>
  /\ createCall = NoCall
  /\ lag = 0

\* the configuration of lines 279-287 with the threshold and history limit given
Config(threshold) ==
  [maxConcurrentJobs |-> MaxConcurrentJobs, executionHistoryLimit |-> HistoryLimit,
   circuitBreakerThreshold |-> threshold]

Init == InitWith(Config(Threshold), StoredJobs, 1..4, MaxExec)

InitBreaker == InitWith(Config(ThresholdBreaker), BreakerJobs, 1..1, MaxExecBreaker)

\* an execution whose circuitBreaker.execute call has not settled
InFlight(e) == ex[e].xpc \in {"waitres", "queued", "admitted"}

\* executeJob lines 466-478 on the execution object
Completed(x, e, result, t) ==
  [x EXCEPT ![e].status = "completed", ![e].result = result, ![e].endTime = t,
            ![e].duration = t - x[e].startTime, ![e].xpc = "persisting"]

\* executeJob lines 471-475 on the job object the call holds
JobCompleted(h, ref, startTime, duration, t) ==
  LET md1 == [h[ref].metadata EXCEPT !.runCount = @ + 1,
                                     !.lastRun = startTime,
                                     !.nextRun = t + NextRunDelay] IN
  [h EXCEPT ![ref].metadata = [md1 EXCEPT !.averageRunTime = CalculateAverageRunTime(md1, duration)]]

\* Failed with the error thrown again to the caller of executeJob
Failed_Rethrown(x, e, message, t) ==
  [x EXCEPT ![e].status = "failed", ![e].error = message, ![e].endTime = t,
            ![e].duration = t - x[e].startTime, ![e].xpc = "rejected", ![e].thrown = message]

\* executeJob lines 480-484 on the execution object
Failed(x, e, message, t) ==
  [x EXCEPT ![e].status = "failed", ![e].error = message, ![e].endTime = t,
            ![e].duration = t - x[e].startTime, ![e].xpc = "persisting"]

\* JobFailed without the count
JobFailed_Uncounted(h, ref) == h

\* executeJob line 486
JobFailed(h, ref) == [h EXCEPT ![ref].metadata.errorCount = @ + 1]

\* The promise of circuitBreaker.execute settles for execution e (ok: fulfilled
\* with value, else rejected with the message value) after the queue gave the
\* slot back (q, x): onSuccess/onFailure, then executeJob lines 466-492.
Settle(q, x, e, ok, value) ==
  LET b == ex[e].breaker
      ref == ex[e].job IN
  /\ queues' = q
  /\ cb' = [cb EXCEPT ![b] = IF ok THEN OnSuccess(@) ELSE OnFailure(@, now)]
  /\ streak' = [streak EXCEPT ![b] = IF ok THEN 0 ELSE @ + 1]
  /\ ex' = IF ok THEN Completed(x, e, value, now) ELSE Failed(x, e, value, now)
  /\ heap' = IF ok THEN JobCompleted(heap, ref, ex[e].startTime, now - ex[e].startTime, now)
                   ELSE JobFailed(heap, ref)
  /\ events' = IF ok THEN [events EXCEPT ![e].completed = @ + 1]
                     ELSE [events EXCEPT ![e].failed = @ + 1]
  /\ executions' = MapSet(executions, ex[e].id, e)

\* A timer of delay milliseconds set at clock reading t may have expired: the
\* clock is read in steps of CbTimeout, and up to one step passes unread.
TimerMayExpire(t, delay) == now - t + CbTimeout > delay

\* Date.now() advances
Tick ==
  /\ now < StartTime + MaxTicks * CbTimeout
  /\ now' = now + CbTimeout
  /\ UNCHANGED <<cronTasks, tasks, createCall, lag>>
  /\ UNCHANGED <<config, memory, jobs, heap, circuitBreakers, cb, streak, executions, ex,
                 queues, events>>

\* the heap ratio process.memoryUsage() reports changes
MemoryChange(m) ==
  /\ m # memory
  /\ memory' = m
  /\ UNCHANGED <<cronTasks, tasks, createCall, lag>>
  /\ UNCHANGED <<now, config, jobs, heap, circuitBreakers, cb, streak, executions, ex,
                 queues, events>>

\* DisabledRefuses without the exemption of manual runs
DisabledRefuses_Always(job, manual) == ~job.enabled

\* executeJob line 424: the firing is refused because the job is disabled
DisabledRefuses(job, manual) == ~job.enabled /\ ~manual

\* executeJob(jobId, manual), lines 418-464 and, when the breaker rejects, 480-493,
\* called by the callback of cron task timer (0: called through the interface)
ExecuteJobBy(jobId, manual, timer) ==
  LET e == Cardinality(Used) + 1
      ref == jobs[jobId]
      call == [IdleExec EXCEPT !.jobId = jobId, !.manual = manual, !.job = ref,
                               !.timer = timer]
      Throw(message) ==
        /\ ex' = [ex EXCEPT ![e] = [call EXCEPT !.xpc = "rejected", !.thrown = message]]
        /\ UNCHANGED <<heap, circuitBreakers, cb, streak, executions, queues, events>>
  IN
  /\ e \in Execs
  /\ UNCHANGED <<now, config, memory, jobs, cronTasks, tasks, createCall, lag>>
  /\ IF ref = 0 THEN Throw("Job not found")
     ELSE IF DisabledRefuses(heap[ref], manual) THEN Throw("Job is disabled")
     ELSE IF GateRefuses(manual, heap[ref].dependencies)
          THEN Throw("Job dependencies not met")
     ELSE
       LET id == <<jobId, now>>
           fresh == circuitBreakers[jobId] = 0
           b == IF fresh THEN Len(cb) + 1 ELSE circuitBreakers[jobId]
           cb1 == IF fresh THEN Append(cb, NewBreaker(config.circuitBreakerThreshold)) ELSE cb
           s1 == IF fresh THEN Append(streak, 0) ELSE streak
           x1 == [ex EXCEPT ![e] = [call EXCEPT !.id = id, !.startTime = now,
                                                !.status = "pending", !.breaker = b,
                                                !.xpc = "created"]]
           p == heap[ref].priority
       IN
       /\ circuitBreakers' = [circuitBreakers EXCEPT ![jobId] = b]
       /\ executions' = MapSet(executions, id, e)
       /\ IF CbRejects(cb1[b], now)
          THEN /\ cb' = cb1
               /\ streak' = s1
               /\ ex' = Failed([x1 EXCEPT ![e].admittedIn = "rejected"], e,
                               "Circuit breaker is OPEN - operation rejected", now)
               /\ heap' = JobFailed(heap, ref)
               /\ events' = [events EXCEPT ![e].failed = @ + 1]
               /\ UNCHANGED queues
          ELSE LET b2 == CbAfterCheck(cb1[b], now)
                   x2 == [x1 EXCEPT ![e].admittedIn = b2.state]
               IN
               IF p \notin Priorities
               THEN \* addJob throws "Invalid priority": the operation fails at once
                    /\ cb' = [cb1 EXCEPT ![b] = OnFailure(b2, now)]
                    /\ streak' = [s1 EXCEPT ![b] = @ + 1]
                    /\ ex' = Failed(x2, e, "Invalid priority", now)
                    /\ heap' = JobFailed(heap, ref)
                    /\ events' = [events EXCEPT ![e].failed = @ + 1]
                    /\ UNCHANGED queues
               ELSE /\ cb' = [cb1 EXCEPT ![b] = b2]
                    /\ streak' = s1
                    /\ UNCHANGED <<heap, events>>
                    /\ IF IsSystemOverloaded
                       THEN /\ ex' = [x2 EXCEPT ![e].xpc = "waitres"]
                            /\ UNCHANGED queues
                       ELSE LET r == QueueAdd(queues, x2, p, e) IN
                            /\ ex' = r.x
                            /\ queues' = r.q

\* the event loop lag changes
LagChange(l) ==
  /\ l # lag
  /\ lag' = l
  /\ UNCHANGED <<now, config, memory, jobs, heap, circuitBreakers, cb, streak, executions, ex,
                 queues, events, cronTasks, tasks, createCall>>

\* executeJob(jobId, manual) called through the interface
ExecuteJob(jobId, manual) == ExecuteJobBy(jobId, manual, 0)

\* the callback of cron task t (lines 399-403) fires; isShuttingDown is false
CronCallback(t) ==
  /\ tasks[t].running
  /\ ExecuteJobBy(tasks[t].jobId, FALSE, t)

\* waitForResources, lines 228-239: a poll that finds the system not overloaded
\* resolves, and addJob goes on to queue.add (line 225)
PollResources(e) ==
  /\ ex[e].xpc = "waitres"
  /\ ~IsSystemOverloaded
  /\ UNCHANGED <<cronTasks, tasks, createCall, lag>>
  /\ LET r == QueueAdd(queues, ex, heap[ex[e].job].priority, e) IN
     /\ ex' = r.x
     /\ queues' = r.q
  /\ UNCHANGED <<now, config, memory, jobs, heap, circuitBreakers, cb, streak, executions,
                 events>>

\* The job body of execution e settles (ok: it fulfils): runJobWithRetry lines
\* 516-537, and when the loop ends while the queue still waits for it, the
\* queue's run settles, the breaker sees the outcome and executeJob finalizes.
BodySettle(e, ok) ==
  LET job == heap[ex[e].job]
      attempt == ex[e].attempt
      p == job.priority
      waited == ex[e].xpc = "admitted"
      Detached(x) ==
        /\ ex' = x
        /\ UNCHANGED <<heap, cb, streak, executions, queues, events>>
  IN
  /\ ex[e].lpc = "body"
  /\ UNCHANGED <<now, config, memory, jobs, circuitBreakers, cronTasks, tasks, createCall, lag>>
  /\ IF ok
     THEN LET x1 == [ex EXCEPT ![e].lpc = "returned"] IN
          IF waited
          THEN LET r == QueueNext(queues, x1, p) IN Settle(r.q, r.x, e, TRUE, "result")
          ELSE Detached(x1)
     ELSE IF attempt < job.maxRetries
          THEN Detached([ex EXCEPT ![e].lastError = BodyError(attempt),
                                   ![e].sleeps = Append(@, RetryDelay(job, attempt)),
                                   ![e].lpc = "sleep"])
          ELSE LET x1 == [ex EXCEPT ![e].lastError = BodyError(attempt),
                                    ![e].loopError = BodyError(attempt),
                                    ![e].lpc = "thrown"] IN
               IF waited
               THEN LET r == QueueNext(queues, x1, p) IN
                    Settle(r.q, r.x, e, FALSE, BodyError(attempt))
               ELSE Detached(x1)

\* the backoff sleep of line 532 ends: the loop's next iteration, lines 504-514
Wake(e) ==
  /\ ex[e].lpc = "sleep"
  /\ UNCHANGED <<cronTasks, tasks, createCall, lag>>
  /\ ex' = StartAttempt(ex, e, ex[e].attempt + 1)
  /\ UNCHANGED <<now, config, memory, jobs, heap, circuitBreakers, cb, streak, executions,
                 queues, events>>

\* The timeout the queue was given for the run of e (line 225) expires before
\* runJobWithRetry has settled.  The queue's promise settles and the slot is
\* given back; the function the queue called is not stopped.  throws: the
\* installed p-queue rejects with a TimeoutError; otherwise it resolves with
\* undefined (throwOnTimeout defaults to false).
Timeout(e, throws) ==
  /\ ex[e].xpc = "admitted"
  /\ ex[e].lpc \in {"body", "sleep"}
  /\ TimerMayExpire(ex[e].runStart, heap[ex[e].job].timeout)
  /\ UNCHANGED <<now, config, memory, jobs, circuitBreakers, cronTasks, tasks, createCall, lag>>
  /\ LET r == QueueNext(queues, ex, heap[ex[e].job].priority) IN
     IF throws THEN Settle(r.q, r.x, e, FALSE, "Promise timed out")
               ELSE Settle(r.q, r.x, e, TRUE, "undefined")

\* persistJobs of line 493 has written the registry: cleanupExecutionHistory and return
PersistDone(e) ==
  /\ ex[e].xpc = "persisting"
  /\ UNCHANGED <<cronTasks, tasks, createCall, lag>>
  /\ ex' = [ex EXCEPT ![e].xpc = "done"]
  /\ executions' = CleanupExecutionHistory(executions, ex)
  /\ UNCHANGED <<now, config, memory, jobs, heap, circuitBreakers, cb, streak, queues,
                 events>>

\* SchemaAccepts without the upper limit of the priority
SchemaAccepts_NoMax(d) ==
  /\ d.priority >= 1
  /\ d.maxRetries >= 0
  /\ d.backoffMultiplier >= 1
  /\ d.initialDelay >= 100
  /\ d.timeout >= 1000

\* JobSchema.parse, lines 75-93, on the fields the model keeps
SchemaAccepts(d) ==
  /\ d.priority >= 1 /\ d.priority <= 5
  /\ d.maxRetries >= 0
  /\ d.backoffMultiplier >= 1
  /\ d.initialDelay >= 100
  /\ d.timeout >= 1000

\* cron.validate of node-cron, on the expressions the definitions of the model use
CronValidate(expression) == expression = "* * * * *"

\* scheduleJob, line 411, on the metadata of the job object it is given
Scheduled(job) ==
  IF job.enabled THEN [job EXCEPT !.metadata.nextRun = now + NextRunDelay] ELSE job

\* scheduleJob, lines 399-409: a new cron task for jobId is entered in cronTasks
\* c under the id and started; a task c holds there is left as it is.  [cronTasks, tasks]
ScheduleTask(c, ts, jobId) ==
  [cronTasks |-> [c EXCEPT ![jobId] = Len(ts) + 1],
   tasks |-> Append(ts, [jobId |-> jobId, running |-> TRUE])]

\* lines 345-349 and 381-385: the cron task cronTasks holds for jobId is stopped
\* and its entry deleted.  [cronTasks, tasks]
StopTask(jobId) ==
  LET t == cronTasks[jobId] IN
  IF t = 0 THEN [cronTasks |-> cronTasks, tasks |-> tasks]
  ELSE [cronTasks |-> [cronTasks EXCEPT ![jobId] = 0],
        tasks |-> [tasks EXCEPT ![t].running = FALSE]]

\* createJob(d) throws at line 297 or 321, before the registry is touched
Rejected(d, message) ==
  [jobData |-> d, thrown |-> message, persisted |-> FALSE, emitted |-> "none"]

\* createJob(d) returns: persistJobs was called (line 330) and job:created
\* emitted (line 333)
Created(d) == [jobData |-> d, thrown |-> "", persisted |-> TRUE, emitted |-> "job:created"]

\* createJob(jobData), lines 295-336: the definition is validated, a job object
\* with new metadata is built and put into the registry under its id, whether
\* or not the id is registered, and scheduled when it is enabled
CreateJob(d) ==
  /\ Len(heap) < Len(RegistryJobs) + MaxMgmt
  /\ UNCHANGED <<now, config, memory, circuitBreakers, cb, streak, executions, ex, queues,
                 events, lag>>
  /\ IF ~SchemaAccepts(d)
     THEN /\ createCall' = Rejected(d, "ZodError")
          /\ UNCHANGED <<heap, jobs, cronTasks, tasks>>
     ELSE IF ~CronValidate(d.cronExpression)
     THEN /\ createCall' = Rejected(d, "Invalid cron expression")
          /\ UNCHANGED <<heap, jobs, cronTasks, tasks>>
     ELSE /\ heap' = Append(heap, Scheduled([d EXCEPT !.metadata = NewMetadata]))
          /\ jobs' = [jobs EXCEPT ![d.id] = Len(heap) + 1]
          /\ IF d.enabled
             THEN LET r == ScheduleTask(cronTasks, tasks, d.id) IN
                  cronTasks' = r.cronTasks /\ tasks' = r.tasks
             ELSE UNCHANGED <<cronTasks, tasks>>
          /\ createCall' = Created(d)

\* updateJob(jobId, updates), lines 338-372: the cron task of the id is stopped;
\* a new job object, the registered one with the updates spread over it and a
\* copy of its metadata, replaces the registered object and is scheduled when
\* it is enabled
UpdateJob(jobId, updates) ==
  LET job == heap[jobs[jobId]]
      updatedJob == [k \in DOMAIN job |->
                       IF k = "metadata" THEN job.metadata
                       ELSE IF k \in DOMAIN updates THEN updates[k] ELSE job[k]]
      stopped == StopTask(jobId)
  IN
  /\ Len(heap) < Len(RegistryJobs) + MaxMgmt
  /\ UNCHANGED <<now, config, memory, circuitBreakers, cb, streak, executions, ex, queues,
                 events, createCall, lag>>
  /\ IF jobs[jobId] = 0
     THEN UNCHANGED <<heap, jobs, cronTasks, tasks>>
     ELSE /\ heap' = Append(heap, Scheduled(updatedJob))
          /\ jobs' = [jobs EXCEPT ![jobId] = Len(heap) + 1]
          /\ IF updatedJob.enabled
             THEN LET r == ScheduleTask(stopped.cronTasks, stopped.tasks, jobId) IN
                  cronTasks' = r.cronTasks /\ tasks' = r.tasks
             ELSE cronTasks' = stopped.cronTasks /\ tasks' = stopped.tasks

\* deleteJob(jobId), lines 374-395
DeleteJob(jobId) ==
  LET stopped == StopTask(jobId) IN
  /\ UNCHANGED <<now, config, memory, heap, cb, streak, executions, ex, queues, events,
                 createCall, lag>>
  /\ IF jobs[jobId] = 0
     THEN UNCHANGED <<jobs, circuitBreakers, cronTasks, tasks>>
     ELSE /\ cronTasks' = stopped.cronTasks
          /\ tasks' = stopped.tasks
          /\ jobs' = [jobs EXCEPT ![jobId] = 0]
          /\ circuitBreakers' = [circuitBreakers EXCEPT ![jobId] = 0]

Next ==
  \/ Tick
  \/ \E m \in MemoryLevels : MemoryChange(m)
  \/ \E j \in JobIds, manual \in BOOLEAN : ExecuteJob(j, manual)
  \/ \E e \in Execs : PollResources(e)
  \/ \E e \in Execs, ok \in BOOLEAN : BodySettle(e, ok)
  \/ \E e \in Execs : Wake(e)
  \/ \E e \in Execs, throws \in BOOLEAN : Timeout(e, throws)
  \/ \E e \in Execs : PersistDone(e)

Spec == Init /\ [][Next]_vars

\* The scheduler while memory stays at or below the limit and no run reaches
\* its timeout (the job of BreakerJobs has ten minutes).
NextBreaker ==
  \/ Tick
  \/ \E j \in JobIds, manual \in BOOLEAN : ExecuteJob(j, manual)
  \/ \E e \in Execs, ok \in BOOLEAN : BodySettle(e, ok)
  \/ \E e \in Execs : Wake(e)
  \/ \E e \in Execs : PersistDone(e)

SpecBreaker == InitBreaker /\ [][NextBreaker]_vars

\* The scheduler with the management operations, while memory stays at or
\* below the limit, no run reaches its timeout and the clock reading stays;
\* createJob is called with the definitions of JobData that validate.
InitRegistry == InitWith(Config(Threshold), RegistryJobs, 1..3, MaxExecRegistry)

NextRegistry ==
  \/ \E j \in JobIds, i \in DOMAIN Updates : UpdateJob(j, Updates[i])
  \/ \E j \in JobIds, manual \in BOOLEAN : ExecuteJob(j, manual)
  \/ \E e \in Execs, ok \in BOOLEAN : BodySettle(e, ok)
  \/ \E e \in Execs : PersistDone(e)
  \/ \E i \in 1..2 : CreateJob(JobData[i])
  \/ \E j \in JobIds : DeleteJob(j)

SpecRegistry == InitRegistry /\ [][NextRegistry]_vars

\* The scheduler constructed with any total concurrency 0..MaxTotal, one job
\* in every lane.
InitLanes ==
  \E c \in 0..MaxTotal :
    InitWith([Config(Threshold) EXCEPT !.maxConcurrentJobs = c], LaneJobs, 1..5, MaxExecLanes)

NextLanes ==
  \/ \E j \in JobIds, manual \in BOOLEAN : ExecuteJob(j, manual)
  \/ \E e \in Execs, ok \in BOOLEAN : BodySettle(e, ok)
  \/ \E e \in Execs : PersistDone(e)

SpecLanes == InitLanes /\ [][NextLanes]_vars

\* The scheduler started with an empty store: jobs are registered, updated and
\* deleted through the interface, and their cron tasks fire; updateJob is called
\* to disable a job.
InitTimers == InitWith(Config(Threshold), <<>>, 2..3, MaxExecTimers)

NextTimers ==
  \/ \E i \in DOMAIN JobData : CreateJob(JobData[i])
  \/ \E j \in JobIds : UpdateJob(j, Updates[1])
  \/ \E j \in JobIds : DeleteJob(j)
  \/ \E t \in DOMAIN tasks : CronCallback(t)
  \/ \E j \in JobIds : ExecuteJob(j, TRUE)
  \/ \E e \in Execs, ok \in BOOLEAN : BodySettle(e, ok)
  \/ \E e \in Execs : PersistDone(e)

SpecTimers == InitTimers /\ [][NextTimers]_vars

\* The scheduler while memory and event loop lag change; no run reaches its
\* timeout and the clock reading stays.
NextMonitor ==
  \/ \E m \in MemoryLevels : MemoryChange(m)
  \/ \E l \in Lags : LagChange(l)
  \/ \E j \in JobIds, manual \in BOOLEAN : ExecuteJob(j, manual)
  \/ \E e \in Execs : PollResources(e)
  \/ \E e \in Execs, ok \in BOOLEAN : BodySettle(e, ok)
  \/ \E e \in Execs : Wake(e)
  \/ \E e \in Execs : PersistDone(e)

SpecMonitor == Init /\ [][NextMonitor]_vars

\* One job, run by hand, that retries once, loaded with the statistics of
\* earlier runs: runCount 0..MaxRuns and, when it has run, an averageRunTime of
\* 0..MaxAverage ms.
AverageJobs(runCount, averageRunTime) ==
  << [Job(1, FALSE, 3, 1, <<>>, 600000) EXCEPT
        !.metadata = [NewMetadata EXCEPT !.runCount = runCount,
                                         !.averageRunTime = averageRunTime,
                                         !.lastRun = IF runCount > 0 THEN StartTime ELSE 0]] >>

InitAverage ==
  \E runCount \in 0..MaxRuns, averageRunTime \in 0..MaxAverage :
    /\ runCount = 0 => averageRunTime = 0
    /\ InitWith(Config(ThresholdBreaker), AverageJobs(runCount, averageRunTime), 1..1,
                MaxExecAverage)

SpecAverage == InitAverage /\ [][NextBreaker]_vars

\* The scheduler with one job while the memory changes and runs reach their
\* timeout, the clock reading stays.  What the event loop guarantees is stated
\* as fairness: a job body that was called settles (executeJobLogic ends), the
\* timer of a backoff sleep fires, persistJobs ends, and a poll of
\* waitForResources that would find the system not overloaded at every
\* reading from some time on is made.
InitLive == InitWith(Config(Threshold), LiveJobs, 1..1, MaxExecLive)

NextLive ==
  \/ \E m \in MemoryLevels : MemoryChange(m)
  \/ \E j \in JobIds : ExecuteJob(j, TRUE)
  \/ \E e \in Execs : PollResources(e)
  \/ \E e \in Execs, ok \in BOOLEAN : BodySettle(e, ok)
  \/ \E e \in Execs : Wake(e)
  \/ \E e \in Execs, throws \in BOOLEAN : Timeout(e, throws)
  \/ \E e \in Execs : PersistDone(e)

FairLive ==
  \A e \in 1..MaxExecLive :
    /\ WF_vars(\E ok \in BOOLEAN : BodySettle(e, ok))
    /\ WF_vars(Wake(e))
    /\ WF_vars(PersistDone(e))
    /\ WF_vars(PollResources(e))

SpecLive == InitLive /\ [][NextLive]_vars /\ FairLive

\* ------------------------------------------------------------------ claims

\* the executeJob call that takes slot e in this step
Called(e) == ex[e].xpc = "idle" /\ ex'[e].xpc # "idle"

\* a job body attempt of e starts in this step
AttemptStarts(e) == ex'[e].invocations > ex[e].invocations

\* the circuitBreaker.execute promise of e settles in this step
Settles(e) == InFlight(e) /\ ex'[e].xpc = "persisting"

\* dependency d as the claims describe one that is not ready
NotReady(d) ==
  \/ jobs[d] = 0
  \/ heap[jobs[d]].metadata.lastRun = 0
  \/ heap[jobs[d]].metadata.errorCount > 0

SomeNotReady(dependencies) == \E i \in DOMAIN dependencies : NotReady(dependencies[i])

\* C1: a breaker's failureCount is the number of failed calls since its last
\* successful call (a success resets it to 0); the failure that makes this
\* number reach the threshold N leaves the breaker open, and while the number
\* is below N the breaker is closed.
C1_ConsecutiveFailuresOpen ==
  [][\A b \in DOMAIN cb :
       /\ cb'[b].failureCount = streak'[b]
       /\ (streak'[b] > streak[b] /\ streak'[b] >= cb[b].threshold => cb'[b].state = "open")
       /\ (streak'[b] < cb[b].threshold => cb'[b].state = "closed")]_vars

\* C1 witness: with N = 2, a breaker that is open after exactly N consecutive
\* failures that followed a success which had reset an earlier failure.
C1_Witness ==
  \E b \in DOMAIN cb :
    /\ cb[b].threshold >= 2
    /\ cb[b].state = "open"
    /\ streak[b] = cb[b].threshold
    /\ \E e \in Execs : ex[e].breaker = b /\ ex[e].status = "completed"
    /\ Cardinality({e \in Execs : ex[e].breaker = b /\ ex[e].status = "failed"}) > cb[b].threshold

\* C2: an executeJob call that reaches the breaker while it is open and not more
\* than the cooldown has passed since lastFailureTime is rejected with the
\* circuit-open error: the job body is not invoked, the queue is not touched
\* and the breaker's state, failureCount and lastFailureTime stay as they are;
\* a rejected execution never invokes the body later either.
C2_OpenRejects ==
  /\ [](\A e \in Execs : ex[e].admittedIn = "rejected" =>
          ex[e].invocations = 0 /\ ex[e].lpc = "none")
  /\ [][\A e \in Execs : \A j \in JobIds :
          LET b == circuitBreakers[j] IN
          ( /\ Called(e) /\ ex'[e].jobId = j /\ ex'[e].thrown = ""
            /\ b # 0
            /\ cb[b].state = "open"
            /\ now - cb[b].lastFailureTime <= CbTimeout )
          => /\ ex'[e].error = "Circuit breaker is OPEN - operation rejected"
             /\ ex'[e].admittedIn = "rejected"
             /\ ex'[e].invocations = 0
             /\ queues' = queues
             /\ cb'[b] = cb[b]]_vars

\* C2 witness: a call was rejected by the open breaker exactly one cooldown
\* after the last failure.
C2_Witness ==
  \E e \in Execs :
    /\ ex[e].admittedIn = "rejected"
    /\ ex[e].status = "failed"
    /\ ex[e].startTime - cb[ex[e].breaker].lastFailureTime = CbTimeout

\* C3: no attempt of the job body starts while the job's breaker is open (the
\* breaker as it is when the attempt starts: after the check of the call that
\* starts it, before the outcome of the run that frees its slot is counted).
C3_NoAttemptWhileOpen ==
  [][\A e \in Execs :
       AttemptStarts(e) =>
         IF Called(e) THEN cb'[ex'[e].breaker].state # "open"
                      ELSE cb[ex[e].breaker].state # "open"]_vars

\* C4: per breaker, at most one execution that was let through in half-open is
\* in flight.
C4_OneTrialInHalfOpen ==
  \A b \in DOMAIN cb :
    Cardinality({e \in Execs : InFlight(e) /\ ex[e].breaker = b
                                /\ ex[e].admittedIn = "half-open"}) <= 1

\* C5: when an execution that was let through in half-open settles, a success
\* leaves the breaker closed with failureCount 0 and a failure leaves it open
\* with lastFailureTime the time of the failure.
C5_TrialDecides ==
  [][\A e \in Execs :
       Settles(e) /\ ex[e].admittedIn = "half-open" =>
         LET b == cb'[ex[e].breaker] IN
         /\ ex'[e].status = "completed" => b.state = "closed" /\ b.failureCount = 0
         /\ ex'[e].status = "failed" => b.state = "open" /\ b.lastFailureTime = now]_vars

\* C6: an open breaker stays open, or becomes half-open by a call that comes
\* more than the cooldown after lastFailureTime; it never becomes closed in
\* one step.
C6_OpenStaysOpen ==
  [][\A b \in DOMAIN cb :
       cb[b].state = "open" =>
         \/ cb'[b].state = "open"
         \/ cb'[b].state = "half-open" /\ now - cb[b].lastFailureTime > CbTimeout]_vars

\* C7: when runJobWithRetry of a job with maxRetries = R throws, the body was
\* invoked exactly R + 1 times, the loop slept R times, the k-th sleep
\* (k = 0..R-1) for initialDelay * backoffMultiplier^k, and the error thrown
\* is the error of attempt R; it never invokes the body more than R + 1 times.
C7_RetryExhaustion ==
  \A e \in Execs :
    ex[e].job # 0 =>
      LET job == heap[ex[e].job]
          R == job.maxRetries IN
      /\ ex[e].invocations <= R + 1
      /\ ex[e].lpc = "thrown" =>
           /\ ex[e].invocations = R + 1
           /\ ex[e].sleeps = [k \in 1..R |-> job.initialDelay * Pow(job.backoffMultiplier, k - 1)]
           /\ ex[e].loopError = BodyError(R)

\* C7 witness: a loop with R = 2 has thrown after sleeping 100 and 200 ms.
C7_Witness ==
  \E e \in Execs :
    /\ ex[e].lpc = "thrown"
    /\ heap[ex[e].job].maxRetries = 2
    /\ ex[e].sleeps = <<100, 200>>
    /\ ex[e].status = "failed"

\* C8: a run whose body succeeds after k failed attempts has a JobExecution
\* settled as completed with retryAttempt = k, one
\* job:completed event and no job:failed event (runCount + 1, errorCount
\* unchanged), and k + 1 invocations of the body.
C8_SuccessAfterRetries ==
  \A e \in Execs :
    ex[e].lpc = "returned" =>
      /\ ex[e].status = "completed"
      /\ ex[e].retryAttempt = ex[e].attempt
      /\ events[e] = [completed |-> 1, failed |-> 0]
      /\ ex[e].invocations = ex[e].attempt + 1

\* C9 as claimed: a manual executeJob call for a job with a dependency that is
\* not ready is refused and the body is not invoked.
C9_ManualGated ==
  [][\A e \in Execs :
       ( /\ Called(e) /\ ex'[e].manual /\ ex'[e].job # 0
         /\ SomeNotReady(heap[ex'[e].job].dependencies) )
       => ex'[e].xpc = "rejected" /\ ex'[e].invocations = 0]_vars

\* C9 amended: a manual executeJob call for a registered job is never refused
\* for its dependencies: also with a dependency that is not ready it creates a
\* JobExecution, enters it in the ledger and goes to the job's breaker.
C9_ManualBypassesGate ==
  [][\A e \in Execs :
       ( /\ Called(e) /\ ex'[e].manual /\ ex'[e].job # 0
         /\ SomeNotReady(heap[ex'[e].job].dependencies) )
       => /\ ex'[e].thrown = ""
          /\ ex'[e].status # "none"
          /\ ex'[e].breaker = circuitBreakers'[ex'[e].jobId]
          /\ ex'[e].breaker # 0
          /\ \E i \in DOMAIN executions' : executions'[i].ex = e]_vars

\* C9 witness: a manual run of job 1 invoked the body although job 2, on which
\* it depends, has never run.
C9_Witness ==
  \E e \in Execs :
    /\ ex[e].manual /\ ex[e].jobId = 1 /\ ex[e].invocations > 0
    /\ heap[jobs[2]].metadata.lastRun = 0

Blocks(d) == jobs[d] # 0 /\ heap[jobs[d]].metadata.errorCount > 0

\* C11: a registered job that has errorCount > 0 keeps errorCount > 0 over every
\* step after which it is still registered (executions, createJob and
\* updateJob calls for its id included), and every non-manual firing of an
\* enabled job that lists such a job as a dependency is refused.
C11_FailureBlocksForever ==
  [][/\ \A d \in JobIds : Blocks(d) /\ jobs'[d] # 0 => Blocks(d)'
     /\ \A e \in Execs :
          ( /\ Called(e) /\ ~ex'[e].manual /\ ex'[e].job # 0 /\ heap[ex'[e].job].enabled
            /\ \E i \in DOMAIN heap[ex'[e].job].dependencies :
                 Blocks(heap[ex'[e].job].dependencies[i]) )
          => ex'[e].xpc = "rejected"]_vars

Terminal == {"completed", "failed", "timeout"}

\* C12: the status of an execution moves only from pending to running and from
\* running to completed, failed or timeout; an execution with a terminal status
\* has been running (its job body was invoked), and once the status is terminal
\* neither status nor retryAttempt changes.
C12_StatusMonotonic ==
  /\ [](\A e \in Execs : ex[e].status \in Terminal => ex[e].invocations > 0)
  /\ [][\A e \in Execs :
          /\ ex[e].status \in Terminal =>
               ex'[e].status = ex[e].status /\ ex'[e].retryAttempt = ex[e].retryAttempt
          /\ ex[e].status = "running" => ex'[e].status \in {"running"} \cup Terminal
          /\ ex[e].status = "pending" => ex'[e].status \in {"pending", "running"}]_vars

\* the queue's timeout settles the run of e in this step: the promise of
\* circuitBreaker.execute settles while the retry loop is where it was
TimesOut(e) == Settles(e) /\ ex'[e].lpc = ex[e].lpc

\* the timeout of the run of e has expired
TimedOut(e) ==
  /\ ex[e].xpc \in {"persisting", "done"}
  /\ ex[e].error = "Promise timed out" \/ ex[e].result = "undefined"

\* C13: an execution whose run is ended by the queue's timeout is finalized with
\* status timeout.
C13_TimeoutStatus ==
  [][\A e \in Execs : TimesOut(e) => ex'[e].status = "timeout"]_vars

\* C14: after the timeout of the run of an execution has expired, its retry loop
\* starts no further attempt of the job body and no further backoff sleep.
C14_HardCancellation ==
  [][\A e \in Execs :
       TimedOut(e) =>
         ex'[e].invocations = ex[e].invocations /\ ex'[e].sleeps = ex[e].sleeps]_vars

\* the statistics of the job registered under id j
Stats(j) == heap[jobs[j]].metadata

\* C15: when an execution settles as completed, its endTime is at least its
\* startTime, exactly one job:completed and no job:failed event has been
\* emitted for it, and the registered job has runCount raised by one, lastRun
\* set to the execution's startTime and errorCount as before.
C15_SuccessEffects ==
  [][\A e \in Execs :
       Settles(e) /\ ex'[e].status = "completed" =>
         /\ ex'[e].endTime >= ex'[e].startTime
         /\ events'[e] = [completed |-> 1, failed |-> 0]
         /\ \A j \in JobIds :
              ex[e].jobId = j /\ jobs[j] # 0 =>
                /\ Stats(j)'.runCount = Stats(j).runCount + 1
                /\ Stats(j)'.lastRun = ex[e].startTime
                /\ Stats(j)'.errorCount = Stats(j).errorCount]_vars

\* the message of the error that made the execution e fail in this step
LastErrorMessage(e) ==
  IF ex'[e].admittedIn = "rejected" THEN "Circuit breaker is OPEN - operation rejected"
  ELSE IF ex'[e].lpc = "thrown" THEN BodyError(heap[ex'[e].job].maxRetries)
  ELSE "Promise timed out"

\* C16: when an execution settles with a failure (the body failed after all
\* retries, the breaker rejected the call, or the run timed out), the
\* execution's error is the message of the last error, exactly one job:failed
\* and no job:completed event has been emitted for it, and the registered job
\* has errorCount raised by one and runCount, lastRun and averageRunTime as
\* before.
C16_FailureEffects ==
  [][\A e \in Execs :
       ( /\ ex[e].xpc \in {"idle", "waitres", "queued", "admitted"}
         /\ ex'[e].xpc = "persisting" /\ ex'[e].status = "failed"
         /\ heap[ex'[e].job].priority \in Priorities )
       => /\ ex'[e].error = LastErrorMessage(e)
          /\ events'[e] = [completed |-> 0, failed |-> 1]
          /\ \A j \in JobIds :
               ex'[e].jobId = j /\ jobs[j] # 0 =>
                 /\ Stats(j)'.errorCount = Stats(j).errorCount + 1
                 /\ Stats(j)'.runCount = Stats(j).runCount
                 /\ Stats(j)'.lastRun = Stats(j).lastRun
                 /\ Stats(j)'.averageRunTime = Stats(j).averageRunTime]_vars

\* C17: an executeJob call that the job's open breaker refuses (cooldown not
\* over) raises the registered job's errorCount by one and leaves a failed
\* JobExecution in the ledger, and it does not reach the priority queue: no
\* lane's waiting list or running count changes, and the execution never
\* invokes the job body nor waits in a lane.
C17_RefusalCounted ==
  /\ [](\A e \in Execs :
          ex[e].admittedIn = "rejected" =>
            /\ ex[e].invocations = 0
            /\ ex[e].runStart = 0
            /\ \A p \in Priorities : \A i \in DOMAIN queues[p].waiting : queues[p].waiting[i] # e)
  /\ [][\A e \in Execs : \A j \in JobIds :
          ( /\ Called(e) /\ ex'[e].jobId = j /\ ex'[e].thrown = ""
            /\ circuitBreakers[j] # 0
            /\ cb[circuitBreakers[j]].state = "open"
            /\ now - cb[circuitBreakers[j]].lastFailureTime <= CbTimeout )
          => /\ Stats(j)'.errorCount = Stats(j).errorCount + 1
             /\ Stats(j)'.runCount = Stats(j).runCount
             /\ ex'[e].status = "failed"
             /\ \E i \in DOMAIN executions' : executions'[i].ex = e
             /\ events'[e].failed = 1
             /\ queues' = queues]_vars

\* C17 witness: a call was refused by the open breaker after one failed run,
\* and the registered job counts both.
C17_Witness ==
  \E e \in Execs :
    /\ ex[e].admittedIn = "rejected"
    /\ ex[e].status = "failed"
    /\ jobs[ex[e].jobId] # 0
    /\ Stats(ex[e].jobId).errorCount = 2

\* the run of e starts in its lane in this step: the first attempt of its body
UnitStarts(e) == AttemptStarts(e) /\ ex[e].invocations = 0

\* C18: while the system is overloaded no run starts in any lane; a call that
\* reaches the queue during overload is neither refused nor started but waits
\* for the resources, and a run that waits for resources or in a lane does not
\* start before the overload is over.
C18_Backpressure ==
  [][\A e \in Execs :
       /\ UnitStarts(e) => ~IsSystemOverloaded
       /\ ( /\ Called(e) /\ ex'[e].thrown = "" /\ ex'[e].admittedIn \in {"closed", "half-open"}
            /\ heap[ex'[e].job].priority \in Priorities
            /\ IsSystemOverloaded )
          => ex'[e].xpc = "waitres" /\ ex'[e].invocations = 0]_vars

\* the runs of lane p whose runJobWithRetry has been started and has not ended
RunningIn(p) ==
  {e \in Execs : ex[e].lpc \in {"body", "sleep"} /\ heap[ex[e].job].priority = p}

\* C19: in every lane i the number of runs that have started and not ended is at
\* most max(1, floor(maxConcurrentJobs / i)).
C19_LaneBudget ==
  \A p \in Priorities :
    Cardinality(RunningIn(p)) <= Max(1, config.maxConcurrentJobs \div p)

\* C20: for every total concurrency the manager is constructed with, the budget
\* of a lane is at least the budget of every lane of lower priority (greater
\* number), and the budget of every lane is at least 1.
C20_PriorityMonotone ==
  /\ \A p1, p2 \in Priorities : p1 < p2 => Concurrency(p1) >= Concurrency(p2)
  /\ \A p \in Priorities : Concurrency(p) >= 1

\* C20 witness: constructed with total concurrency 0, the lanes 1 and 5 each
\* run one job.
C20_Witness ==
  /\ config.maxConcurrentJobs = 0
  /\ queues[1].pending = 1
  /\ queues[5].pending = 1

\* the call of e has reached addJob of lane p: it passed the gates, the breaker
\* let it through and the lane exists
ArrivedIn(x, e, p) ==
  /\ x[e].admittedIn \in {"closed", "half-open"}
  /\ heap[x[e].job].priority = p

\* C21: within one lane the runs start in the order in which their addJob calls
\* arrived: when the run of a call starts, the run of every call that reached
\* the same lane earlier has started, also when the earlier call arrived during
\* overload and waits for the resources.
C21_ArrivalOrder ==
  [][\A p \in Priorities : \A e1, e2 \in Execs :
       ( /\ e1 < e2
         /\ ArrivedIn(ex, e1, p)
         /\ ArrivedIn(ex', e2, p)
         /\ UnitStarts(e2) )
       => ex[e1].invocations > 0]_vars

\* executeJob returns for e in this step: the registry is written and the ledger trimmed
Returns(e) == ex[e].xpc = "persisting" /\ ex'[e].xpc = "done"

\* the executions for which a JobExecution was entered in the ledger
Recorded == {e \in Execs : ex[e].status # "none"}

\* those whose execution id is a key of the ledger
Retained == {e \in Recorded : \E i \in DOMAIN executions : executions[i].id = ex[e].id}

\* C22: when executeJob returns, the ledger holds at most executionHistoryLimit
\* entries, and if entries have been evicted it holds exactly
\* executionHistoryLimit entries, none of them with a startTime before that of
\* an evicted entry.
C22_HistoryRetention ==
  [][\A e \in Execs :
       Returns(e) =>
         /\ Len(executions') <= config.executionHistoryLimit
         /\ Recorded' \ Retained' # {} =>
              /\ Len(executions') = config.executionHistoryLimit
              /\ \A r \in Retained' : \A v \in Recorded' \ Retained' :
                   ex'[r].startTime >= ex'[v].startTime]_vars

\* C22 witness: an executeJob call has returned, the ledger is full and an
\* entry older than every retained one has been evicted.
C22_Witness ==
  /\ \E e \in Execs : ex[e].xpc = "done"
  /\ Len(executions) = config.executionHistoryLimit
  /\ \E v \in Recorded \ Retained : \A r \in Retained : ex[r].startTime > ex[v].startTime

\* definition d breaks a limit of the job schema or its cron expression is not
\* in cron syntax
Invalid(d) ==
  \/ d.priority < 1 \/ d.priority > 5
  \/ d.maxRetries < 0
  \/ d.backoffMultiplier < 1
  \/ d.initialDelay < 100
  \/ d.timeout < 1000
  \/ d.cronExpression # "* * * * *"

\* createJob was called in this step with a definition that is not valid
CreateCalledInvalid == createCall' # createCall /\ Invalid(createCall'.jobData)

\* C23: a createJob call with a definition the schema rejects or with a cron
\* expression that does not validate throws and changes nothing: registry, job
\* objects and cron tasks stay as they are, persistJobs is not called and no
\* job:created event is emitted.
C23_InvalidRejected ==
  [][CreateCalledInvalid =>
       /\ createCall'.thrown # ""
       /\ ~createCall'.persisted
       /\ createCall'.emitted = "none"
       /\ UNCHANGED <<jobs, heap, cronTasks, tasks>>]_vars

\* C23 witness: an enabled definition with a cron expression that does not
\* validate was rejected for an id that is registered, and no cron task was
\* installed for it.
C23_Witness ==
  /\ createCall.thrown = "Invalid cron expression"
  /\ createCall.jobData.enabled
  /\ jobs[createCall.jobData.id] # 0
  /\ cronTasks[createCall.jobData.id] = 0

\* C24: a cron task's callback never calls executeJob for a job that is
\* disabled or not in the registry.
C24_NoFiringWhenOff ==
  [][\A e \in Execs :
       Called(e) /\ ex'[e].timer # 0 =>
         /\ jobs[ex'[e].jobId] # 0
         /\ heap[jobs[ex'[e].jobId]].enabled]_vars

\* the execution statistics of the job object ref
Statistics(h, ref) ==
  [runCount |-> h[ref].metadata.runCount, errorCount |-> h[ref].metadata.errorCount,
   lastRun |-> h[ref].metadata.lastRun, averageRunTime |-> h[ref].metadata.averageRunTime]

\* C25: a createJob, updateJob or deleteJob call (a step that changes the
\* registry) leaves runCount, errorCount, lastRun and averageRunTime of every
\* job id that is registered before and after the call as they were.
C25_StatsByExecutionOnly ==
  [][\A j \in JobIds :
       jobs' # jobs /\ jobs[j] # 0 /\ jobs'[j] # 0 =>
         Statistics(heap', jobs'[j]) = Statistics(heap, jobs[j])]_vars

\* C26: every registered job lists only dependencies that are registered ids,
\* and not its own id.
C26_DependenciesRegistered ==
  \A j \in JobIds :
    jobs[j] # 0 =>
      \A i \in DOMAIN heap[jobs[j]].dependencies :
        LET d == heap[jobs[j]].dependencies[i] IN
        d # j /\ d \in JobIds /\ jobs[d] # 0

\* C27: every registered job has a priority in 1..5 and a cron expression that
\* validates, and no execution fails with the queue's invalid-priority error.
C27_RegisteredJobsValid ==
  /\ \A j \in JobIds :
       jobs[j] # 0 =>
         /\ heap[jobs[j]].priority \in 1..5
         /\ heap[jobs[j]].cronExpression = "* * * * *"
  /\ \A e \in Execs : ex[e].error # "Invalid priority"

\* C28: a non-manual executeJob call for a registered job that is disabled
\* throws without creating a JobExecution and leaves ledger, breakers, queue,
\* job objects and events as they are; a manual call for a disabled job is not
\* refused for that: it creates a JobExecution, goes to the job's breaker and,
\* unless the breaker rejects it, to the lane of the job's priority (it waits
\* for resources, waits in the lane or runs in it).
C28_DisabledRefused ==
  [][\A e \in Execs :
       Called(e) /\ ex'[e].job # 0 /\ ~heap[ex'[e].job].enabled =>
         LET p == heap[ex'[e].job].priority IN
         /\ ~ex'[e].manual =>
              /\ ex'[e].xpc = "rejected"
              /\ ex'[e].thrown = "Job is disabled"
              /\ ex'[e].status = "none" /\ ex'[e].invocations = 0
              /\ UNCHANGED <<executions, circuitBreakers, cb, streak, queues, heap, events>>
         /\ ex'[e].manual =>
              /\ ex'[e].thrown = ""
              /\ ex'[e].status # "none"
              /\ ex'[e].breaker # 0
              /\ ex'[e].breaker = circuitBreakers'[ex'[e].jobId]
              /\ ex'[e].admittedIn = "rejected" <=>
                   LET b == circuitBreakers[ex'[e].jobId] IN
                   /\ b # 0
                   /\ cb[b].state = "open"
                   /\ now - cb[b].lastFailureTime <= CbTimeout
              /\ ex'[e].admittedIn # "rejected" =>
                   \/ ex'[e].xpc = "waitres" /\ IsSystemOverloaded
                   \/ ex'[e].xpc = "queued"
                        /\ queues'[p].waiting = Append(queues[p].waiting, e)
                   \/ ex'[e].xpc = "admitted"
                        /\ queues'[p].pending = queues[p].pending + 1
                        /\ queues'[p].pending <= Concurrency(p)]_vars

\* C28 witness: a non-manual firing of the disabled job 2 was refused, and a
\* manual run of it was let through by its breaker and runs in lane 3.
C28_Witness ==
  \E e1, e2 \in Execs :
    /\ ex[e1].jobId = 2 /\ ~ex[e1].manual /\ ex[e1].thrown = "Job is disabled"
    /\ ex[e2].jobId = 2 /\ ex[e2].manual /\ ex[e2].xpc = "admitted"
    /\ ex[e2].breaker = circuitBreakers[2]
    /\ queues[3].pending = 1

\* the cron tasks installed for job id j: created for it and not stopped
Installed(j) == {t \in DOMAIN tasks : tasks[t].jobId = j /\ tasks[t].running}

\* C29: while a job id is not registered (it was deleted and not registered
\* again) no cron task is installed for it and no circuit breaker is stored for
\* it, also when an execution of it that was in flight at the deletion settles;
\* a registration of the id leaves it without a stored breaker, and the first
\* execution after it gets a new, closed breaker.
C29_DeleteRemovesAll ==
  /\ [](\A j \in JobIds :
          jobs[j] = 0 => circuitBreakers[j] = 0 /\ cronTasks[j] = 0 /\ Installed(j) = {})
  /\ [][/\ \A j \in JobIds : jobs[j] = 0 /\ jobs'[j] # 0 => circuitBreakers'[j] = 0
        /\ \A e \in Execs :
             Called(e) /\ ex'[e].thrown = "" /\ circuitBreakers[ex'[e].jobId] = 0 =>
               /\ ex'[e].admittedIn = "closed"
               /\ ex'[e].breaker \notin DOMAIN cb]_vars

\* the errors executeJob throws before it creates a JobExecution
GateErrors == {"Job not found", "Job is disabled", "Job dependencies not met"}

\* C30: executeJob throws only at the gates, before a JobExecution exists.  A
\* call that created a JobExecution never rejects: when its run fails (the body
\* failed after all retries, the breaker rejected the call, the run timed out)
\* the failure is recorded in the execution, counted in errorCount of the job
\* and emitted as one job:failed event, and the call goes on to write the
\* registry and return the execution.
C30_FailuresCaptured ==
  /\ [](\A e \in Execs :
          /\ ex[e].thrown # "" => ex[e].thrown \in GateErrors /\ ex[e].status = "none"
          /\ ex[e].status # "none" => ex[e].thrown = "" /\ ex[e].xpc # "rejected")
  /\ [][\A e \in Execs :
          /\ ex'[e].status = "failed" /\ ex[e].status # "failed" =>
               /\ ex'[e].xpc = "persisting"
               /\ ex'[e].error # ""
               /\ events'[e].failed = events[e].failed + 1
               /\ heap'[ex'[e].job].metadata.errorCount
                    = heap[ex'[e].job].metadata.errorCount + 1
          /\ ex[e].xpc = "persisting" => ex'[e].xpc \in {"persisting", "done"}
          /\ ex[e].xpc = "done" => ex'[e].xpc = "done"]_vars

\* C30 witness: executeJob has returned for a run that timed out and for a
\* call the breaker, opened by that failure, rejected.
C30_Witness ==
  \E e1, e2 \in Execs :
    /\ ex[e1].xpc = "done" /\ ex[e1].error = "Promise timed out"
    /\ ex[e2].xpc = "done" /\ ex[e2].admittedIn = "rejected"
    /\ ex[e2].error = "Circuit breaker is OPEN - operation rejected"

\* e settles as completed in this step
SettlesCompleted(e) == Settles(e) /\ ex'[e].status = "completed"

\* n is the integer nearest to a / b, the upper one of two that are equally near
Nearest(n, a, b) == 2 * n * b <= 2 * a + b /\ 2 * a + b < 2 * (n + 1) * b

\* C31: when an execution completes with duration d, the job's runCount is raised
\* by one to a value of at least 1 and its averageRunTime becomes the integer
\* nearest to (old * (runCount - 1) + d) / runCount, with old the averageRunTime
\* before and runCount the raised count; the first completed run of a job sets
\* averageRunTime to d.
C31_IncrementalMean ==
  [][\A e \in Execs :
       SettlesCompleted(e) =>
         LET old == heap[ex[e].job].metadata.averageRunTime
             runCount == heap'[ex[e].job].metadata.runCount
             d == ex'[e].duration
             new == heap'[ex[e].job].metadata.averageRunTime
         IN /\ runCount = heap[ex[e].job].metadata.runCount + 1
            /\ runCount >= 1
            /\ d = now - ex[e].startTime
            /\ Nearest(new, old * (runCount - 1) + d, runCount)
            /\ runCount = 1 => new = d]_vars

\* the job was loaded with two runs and an averageRunTime of 1 or 2 ms, its third
\* run completed within the same clock reading (duration 0), and the mean, 2/3
\* or 4/3, was rounded to 1
C31_Witness ==
  /\ ex[1].status = "completed" /\ ex[1].duration = 0
  /\ ex[2].xpc = "idle"
  /\ heap[1].metadata.runCount = 3
  /\ heap[1].metadata.averageRunTime = 1

\* C32: isSystemOverloaded() is true exactly when the heap ratio is above 85 or
\* the cpu approximation taken from the event loop lag is above 90.
C32_OverloadedExactly ==
  IsSystemOverloaded <=> (memory > MemoryLimit \/ CpuApproximation > CpuLimit)

\* C33: in every state of a circuit breaker (threshold at least 1), whatever the
\* interleaving of the calls that go through it: a closed breaker has a
\* failureCount below its threshold, an open or half-open one a failureCount
\* of at least its threshold.
C33_StateAndCount ==
  \A b \in DOMAIN cb :
    /\ cb[b].threshold >= 1
    /\ cb[b].state \in {"closed", "open", "half-open"}
    /\ cb[b].state = "closed" => cb[b].failureCount < cb[b].threshold
    /\ cb[b].state \in {"open", "half-open"} => cb[b].failureCount >= cb[b].threshold

\* the breaker opened, its cooldown passed, and two calls are in flight through
\* the half-open breaker at once
C33_Witness ==
  \E b \in DOMAIN cb :
    /\ cb[b].state = "half-open"
    /\ cb[b].failureCount >= cb[b].threshold
    /\ \E e1, e2 \in Execs :
         /\ e1 # e2
         /\ ex[e1].breaker = b /\ ex[e2].breaker = b
         /\ InFlight(e1) /\ InFlight(e2)
         /\ ex[e1].admittedIn = "half-open"

\* the failureCount of breaker b in the breakers c (0 while it does not exist)
FailureCount(c, b) == IF b \in DOMAIN c THEN c[b].failureCount ELSE 0

\* a job:failed event is emitted for e in this step
FailedEvent(e) == events'[e].failed > events[e].failed

\* C34: a run counts as at most one failure of the job's breaker however many
\* attempts it makes.  A breaker's failureCount and a job's errorCount are raised
\* only when a run of the job is finalized as failed, by 1 and together with
\* the run's job:failed event (a call the open breaker rejects raises the
\* errorCount only); no run is finalized as failed more than once; a run whose
\* attempts all failed has been counted exactly once, and a run that ended with
\* a successful attempt has not been counted.
C34_OneFailurePerRun ==
  /\ [](\A e \in Execs :
          /\ events[e].failed <= 1
          /\ ex[e].lpc = "thrown" =>
               /\ ex[e].invocations = heap[ex[e].job].maxRetries + 1
               /\ events[e].failed = 1
          /\ ex[e].lpc = "returned" => events[e].failed = 0)
  /\ [][/\ \A e \in Execs :
             FailedEvent(e) =>
               /\ events'[e].failed = events[e].failed + 1
               /\ heap'[ex'[e].job].metadata.errorCount =
                    heap[ex'[e].job].metadata.errorCount + 1
               /\ FailureCount(cb', ex'[e].breaker) =
                    FailureCount(cb, ex'[e].breaker)
                      + (IF ex'[e].admittedIn = "rejected" THEN 0 ELSE 1)
        /\ \A b \in DOMAIN cb' :
             FailureCount(cb', b) > FailureCount(cb, b) =>
               \E e \in Execs : ex'[e].breaker = b /\ FailedEvent(e)
        /\ \A ref \in DOMAIN heap :
             heap'[ref].metadata.errorCount > heap[ref].metadata.errorCount =>
               \E e \in Execs : ex'[e].job = ref /\ FailedEvent(e)]_vars

\* the executions whose job body is running
BodiesRunning == {e \in Execs : ex[e].lpc = "body"}

\* C35: the number of job bodies running at the same time, over all five lanes,
\* is at most the configured maxConcurrentJobs.
C35_TotalBudget == Cardinality(BodiesRunning) <= config.maxConcurrentJobs

\* C36: two distinct executions never have the same execution id, so that no
\* executeJob call writes its ledger entry over that of another execution.
C36_DistinctIds ==
  \A e1, e2 \in Recorded : e1 # e2 => ex[e1].id # ex[e2].id

\* the executions of job j that settled with the given status
SettledAs(j, status) ==
  {e \in Execs : ex[e].jobId = j /\ ex[e].status = status /\ ~InFlight(e)}

\* C37: no statistics update is lost.  For job 1, which is registered when the
\* scheduler starts and is not registered again: whenever it is registered and
\* none of its executions is in flight, its runCount in the registry is the
\* number of its executions that settled completed and its errorCount the
\* number that settled failed.
C37_NoLostUpdate ==
  ( /\ jobs[1] # 0
    /\ \A e \in Execs : ex[e].jobId = 1 => ~InFlight(e) )
  => /\ Stats(1).runCount = Cardinality(SettledAs(1, "completed"))
     /\ Stats(1).errorCount = Cardinality(SettledAs(1, "failed"))

\* C38: after any sequence of createJob, updateJob and deleteJob calls every job
\* id has at most one active timer, and it has one exactly when the registry
\* holds a job of the id that is enabled.
C38_OneTimerPerJob ==
  \A j \in JobIds :
    /\ Cardinality(Installed(j)) <= 1
    /\ Installed(j) # {} <=> (jobs[j] # 0 /\ heap[jobs[j]].enabled)

\* C39: when every attempt of the job body ends (fairness of BodySettle) and
\* every overload period ends (the system is not overloaded again and again),
\* every execution executeJob created reaches a terminal status and does not
\* stay pending or running forever, its executeJob call returns, and its retry
\* loop makes at most maxRetries + 1 attempts.
C39_Liveness ==
  []<>(~IsSystemOverloaded) =>
    \A e \in 1..MaxExecLive :
      /\ (ex[e].status # "none") ~> (ex[e].status \in Terminal)
      /\ ~<>[](ex[e].status \in {"pending", "running"})
      /\ (ex[e].status # "none") ~> (ex[e].xpc = "done")
      /\ [](ex[e].job # 0 => ex[e].invocations <= heap[ex[e].job].maxRetries + 1)

====
